---- MODULE Spec2Model ----
(***************************************************************************)
(* State-machine model of two parts of nodeshot:                           *)
(*   - the old-nodeshot importer, Command.handle and the phases it runs    *)
(*     (extra/oldimporter/management/commands/import_old_nodeshot.py);     *)
(*   - the CitySDK Mobility synchronizer mixin                             *)
(*     (interoperability/synchronizers/CitySdkMobility.py).                *)
(* Spec          is one run of the importer.                               *)
(* SpecRuns      is the runs of one command object, one after the other.   *)
(* SpecAdapter   is one add / change / delete call of the synchronizer.    *)
(* SpecUsernames is import_users, username by username.                    *)
(***************************************************************************)
EXTENDS Integers, Sequences, FiniteSets, TLC

VARIABLES
    \* ---- importer: Command attributes and the locals of handle() ----
    pc,              \* position of the run inside handle()
    i,               \* index of the running for loop
    status_mapping,  \* Command.status_mapping (class attribute, mutated in place)
    default_layer,   \* Command.default_layer
    old_nodes,       \* self.old_nodes
    users_dict,      \* self.users_dict
    email_todo,      \* the part of self.email_set that import_users has not visited
    old_count,       \* length of the legacy table read by the running phase
    legacy_left,     \* rows of the legacy database not read yet
    acc,             \* the saved_* lists local to the running phase
    journal,         \* self.saved_* and self.routing_protocols_added
    db,              \* the new database, one set of rows per model
    paused,          \* disconnectable signals are paused
    delete,          \* local "delete" of handle()
    answer,          \* local "answer" of confirm_operation_completed()
    handler,         \* the except clause of handle() that ran
    raised_in,       \* the step that raised the exception handle() caught
    attempted,       \* the <<kind, id>> whose delete() delete_imported_data called
    rollbacks,       \* number of times delete_imported_data was entered
    di,              \* position of delete_imported_data in its loops
    failed_deletes,  \* number of delete() calls that raised
    intersecting_layers, \* local "intersecting_layers" of import_nodes
    layer_answer,    \* local "answer" of prompt_layer_selection, as raw_input() gave it
    asked,           \* raw_input() calls of prompt_layer_selection for the current node
    layer_id,        \* the layer of the node import_nodes is building, or Discarded
    old_link,        \* local "old_link" of import_links: the interfaces it names
    run,             \* number of handle() calls made on the command object
    committed_before,\* the <<kind, id>> of the rows earlier runs left in the store
    \* ---- synchronizer: one call of add / change / delete ----
    a_pc,            \* position of the call
    a_call,          \* the method called
    a_node,          \* the node (for delete: the node whose external id is given)
    a_node_passed,   \* the node as it was when the caller passed it
    a_session,       \* local "session"
    a_record,        \* local "citysdk_record"
    a_response,      \* local "response" of the put / delete request
    a_requests,      \* the HTTP requests issued so far, in order
    a_acquired,      \* sessions the provider handed out to this call
    a_released,      \* release_session() calls that got a response
    a_result,        \* what the call returned
    a_exception,     \* the exception that left the call
    \* ---- import_users: the usernames it gives ----
    u_pc,            \* position in the loop of import_users
    u_owners,        \* the users import_users has still to build, in its order
    u_preexisting,   \* usernames of the store before the run
    u_users,         \* usernames of the store
    u_created,       \* usernames of the users saved by the run, in order
    u_original,      \* local "original_username"
    u_username,      \* user.username
    u_counter        \* local "counter"

pvars == <<pc, i, status_mapping, default_layer, old_nodes, users_dict, email_todo,
           old_count, legacy_left, acc, journal, db, paused, delete, answer, handler, raised_in,
           attempted, rollbacks, di, failed_deletes, intersecting_layers, layer_answer, asked,
           layer_id, old_link, run, committed_before>>
rvars == <<run, committed_before>>
nvars == <<intersecting_layers, layer_answer, asked, layer_id>>
avars == <<a_pc, a_call, a_node, a_node_passed, a_session, a_record, a_response, a_requests,
           a_acquired, a_released, a_result, a_exception>>
uvars == <<u_pc, u_owners, u_preexisting, u_users, u_created, u_original, u_username,
           u_counter>>
vars == <<pvars, avars, uvars>>

----------------------------------------------------------------------------
\* Bounds of the legacy tables and of the inputs.
MaxNodes == 2
MaxDevices == 1
MaxInterfaces == 2
MaxLinks == 1
MaxContacts == 1
\* Bound of the legacy database as a whole: the rows of its five tables.
MaxLegacyRows == 4
\* Bound of the number of delete() calls that raise in one run.
MaxFailedDeletes == 1
\* Bound of the number of raw_input() calls prompt_layer_selection makes for one node.
MaxPrompts == 2

Min(a, b) == IF a < b THEN a ELSE b

Emails == {"e1", "e2"}
Layers == {"A", "B", "C"}
LegacyStatusCodes == {"a", "h", "u"}
RoutingProtocolNames == {"olsr", "batman"}

\* STATUS_MAPPING absent (.get('STATUS_MAPPING', False)) or an empty dict: both
\* are false for "if not self.status_mapping".
NoMapping == [k \in {} |-> ""]
NoLayer == "False"       \* DEFAULT_LAYER absent: .get('DEFAULT_LAYER', False)
NoId == 0                \* users_dict[email] has no 'id' key
None == "None"           \* Python's None
Unset == "unset"         \* attribute the importer never assigned

Range(s) == {s[k] : k \in 1..Len(s)}
Ids(rows) == {r.id : r \in rows}

\* Rows of the Status table of the new database: slug -> id.
StatusTable == [active |-> "status#1", potential |-> "status#2"]
StatusSlugs == DOMAIN StatusTable

\* The values settings may give to STATUS_MAPPING.
\* The values settings give to NODESHOT['OLD_IMPORTER'].
Settings ==
    { [STATUS_MAPPING |-> NoMapping, DEFAULT_LAYER |-> NoLayer],
      [STATUS_MAPPING |-> [a |-> "active", default |-> "potential"], DEFAULT_LAYER |-> "A"],
      [STATUS_MAPPING |-> [a |-> "active", default |-> "missing"], DEFAULT_LAYER |-> "A"],
      [STATUS_MAPPING |-> [a |-> "active"], DEFAULT_LAYER |-> NoLayer] }

Kinds == {"users", "nodes", "devices", "routing_protocols", "interfaces",
          "vaps", "ipv4", "ipv6", "links", "contacts"}
EmptyLists == [k \in Kinds |-> <<>>]

\* The new database before the run: no row of the imported models, one routing
\* protocol created by hand.
InitialRoutingProtocols == {[id |-> 1, name |-> "olsr"]}
InitialDb == [k \in Kinds |-> IF k = "routing_protocols" THEN InitialRoutingProtocols ELSE {}]

\* Primary key the database gives to a new row of an auto-increment model.
NextPk(rows) == Cardinality(rows) + 1

Append1(lists, kind, id) == [lists EXCEPT ![kind] = Append(@, id)]
Insert(d, kind, row) == [d EXCEPT ![kind] = @ \cup {row}]

----------------------------------------------------------------------------
\* Model.delete(): the row and, as the ORM collects them, the rows that refer
\* to it through a foreign key.
DeleteInterfaces(d, S) ==
    [d EXCEPT !["interfaces"] = {r \in @ : r.id \notin S},
              !["vaps"] = {r \in @ : r.interface_id \notin S},
              !["ipv4"] = {r \in @ : r.interface_id \notin S},
              !["ipv6"] = {r \in @ : r.interface_id \notin S},
              !["links"] = {r \in @ : r.a \notin S /\ r.b \notin S}]

DeleteDevices(d, S) ==
    DeleteInterfaces([d EXCEPT !["devices"] = {r \in @ : r.id \notin S}],
                     {r.id : r \in {x \in d["interfaces"] : x.device_id \in S}})

DeleteNodes(d, S) ==
    DeleteDevices([d EXCEPT !["nodes"] = {r \in @ : r.id \notin S}],
                  {r.id : r \in {x \in d["devices"] : x.node_id \in S}})

DeleteUsers(d, S) ==
    DeleteNodes([d EXCEPT !["users"] = {r \in @ : r.id \notin S}],
                {r.id : r \in {x \in d["nodes"] : x.user_id \in S}})

DeleteRow(d, kind, id) ==
    CASE kind = "interfaces" -> DeleteInterfaces(d, {id})
      [] kind = "devices" -> DeleteDevices(d, {id})
      [] kind = "nodes" -> DeleteNodes(d, {id})
      [] kind = "users" -> DeleteUsers(d, {id})
      [] OTHER -> [d EXCEPT ![kind] = {r \in @ : r.id # id}]

\* A rollback that starts with the users and ends with the interfaces.
DeleteOrderUsersFirst ==
    <<"users", "contacts", "nodes", "routing_protocols", "devices", "interfaces">>

\* delete_imported_data: the order of its six for loops.
DeleteOrder == <<"interfaces", "devices", "routing_protocols", "nodes", "contacts", "users">>

RECURSIVE EntriesOf(_, _)
EntriesOf(kind, list) ==
    IF list = <<>> THEN <<>>
    ELSE <<(<<kind, Head(list)>>)>> \o EntriesOf(kind, Tail(list))

RECURSIVE LoopsOver(_, _)
LoopsOver(order, j) ==
    IF order = <<>> THEN <<>>
    ELSE EntriesOf(Head(order), j[Head(order)]) \o LoopsOver(Tail(order), j)

\* The delete() calls delete_imported_data makes, in order.
DeleteSequence == LoopsOver(DeleteOrder, journal)

----------------------------------------------------------------------------
\* handle(): the positions inside its try block.
TryBlock == {"start", "check_status_mapping", "retrieve_nodes", "extract_users",
             "import_users", "import_nodes", "select_layer", "prompt_layer_selection",
             "prompt_answered", "import_devices", "import_interfaces",
             "import_links", "import_contacts", "confirm", "confirm_rollback",
             "resume_signals"}

\* The legacy node tables, up to the naming of the e-mail addresses.
NodeTables ==
    {t \in UNION {[1..n -> Emails] : n \in 0..MaxNodes} : t = <<>> \/ t[1] = "e1"}

\* No exception has left the call.
\* import_links is not inside an iteration of its loop.
NoLink == [from_interface_id |-> NoId, to_interface_id |-> NoId]

NoException == [type |-> "none", cause |-> "none"]

AdapterInit ==
    /\ a_pc = "idle"
    /\ a_call = "none"
    /\ a_node = None
    /\ a_node_passed = None
    /\ a_session = None
    /\ a_record = None
    /\ a_response = None
    /\ a_requests = <<>>
    /\ a_acquired = 0
    /\ a_released = 0
    /\ a_result = None
    /\ a_exception = NoException

\* import_users is not looked at username by username.
UsernamesIdle ==
    /\ u_pc = "idle"
    /\ u_owners = <<>>
    /\ u_preexisting = {}
    /\ u_users = {}
    /\ u_created = <<>>
    /\ u_original = <<>>
    /\ u_username = <<>>
    /\ u_counter = 0

ImporterInit ==
    /\ pc = "start"
    /\ i = 0
    /\ \E s \in Settings :
          /\ status_mapping = s.STATUS_MAPPING
          /\ default_layer = s.DEFAULT_LAYER
    /\ old_nodes = <<>>
    /\ users_dict = [e \in {} |-> NoId]
    /\ email_todo = {}
    /\ old_count = 0
    /\ legacy_left = MaxLegacyRows
    /\ acc = EmptyLists
    /\ journal = EmptyLists
    /\ db = InitialDb
    /\ paused = FALSE
    /\ delete = FALSE
    /\ answer = ""
    /\ handler = "none"
    /\ raised_in = "none"
    /\ attempted = {}
    /\ rollbacks = 0
    /\ di = 0
    /\ failed_deletes = 0
    /\ intersecting_layers = {}
    /\ layer_answer = ""
    /\ asked = 0
    /\ layer_id = Unset
    /\ old_link = NoLink
    /\ run = 1
    /\ committed_before = {}

Init ==
    /\ AdapterInit
    /\ UsernamesIdle
    /\ ImporterInit

\* A handle() whose "except KeyboardInterrupt" clause does not set "delete".
DeleteAfterExceptionOnly(clause) == clause = "Exception"

\* handle(): "delete" after an except clause ran.
DeleteAfter(clause) == TRUE

\* An exception leaves the try block of handle() for "except Exception": the
\* locals of the running phase are lost, the database keeps what was saved.
Raise(step) ==
    /\ handler' = "Exception"
    /\ raised_in' = step
    /\ delete' = DeleteAfter("Exception")
    /\ pc' = "if_delete"
    /\ i' = 0
    /\ acc' = EmptyLists
    /\ email_todo' = {}
    /\ old_count' = 0
    /\ legacy_left' = 0

\* handle(): from its first statement to pause_disconnectable_signals().
Start ==
    /\ pc = "start"
    /\ paused' = TRUE
    /\ pc' = "check_status_mapping"
    /\ UNCHANGED <<i, status_mapping, default_layer, old_nodes, users_dict, email_todo,
                   old_count, legacy_left, acc, journal, db, delete, answer, handler, raised_in,
                   attempted, rollbacks, di, failed_deletes>>
    /\ UNCHANGED nvars
    /\ UNCHANGED <<old_link, rvars, avars, uvars>>

\* A check_status_mapping that returns without looking at the mapping.
check_status_mapping_skipped ==
    /\ pc = "check_status_mapping"
    /\ pc' = "retrieve_nodes"
    /\ UNCHANGED <<i, status_mapping, default_layer, old_nodes, users_dict, email_todo,
                   old_count, legacy_left, acc, journal, db, paused, delete, answer, handler,
                   raised_in, attempted, rollbacks, di, failed_deletes>>
    /\ UNCHANGED nvars
    /\ UNCHANGED <<old_link, rvars, avars, uvars>>

\* check_status_mapping: Status.objects.get(slug=new_val) finds a row.
TargetExists(new_val) == new_val \in StatusSlugs

check_status_mapping ==
    /\ pc = "check_status_mapping"
    /\ IF DOMAIN status_mapping = {}
       THEN /\ pc' = "retrieve_nodes"
            /\ UNCHANGED <<status_mapping, handler, raised_in, delete, i, acc, email_todo,
                           old_count, legacy_left>>
       ELSE LET found == {k \in DOMAIN status_mapping : TargetExists(status_mapping[k])}
            IN  IF found = DOMAIN status_mapping
                THEN /\ status_mapping' = [k \in DOMAIN status_mapping |->
                                              StatusTable[status_mapping[k]]]
                     /\ pc' = "retrieve_nodes"
                     /\ UNCHANGED <<handler, raised_in, delete, i, acc, email_todo,
                                    old_count, legacy_left>>
                ELSE \* ImproperlyConfigured at the first target not found; the
                     \* entries iteritems() gave before it are already replaced.
                     \E before \in SUBSET found :
                        /\ status_mapping' = [k \in DOMAIN status_mapping |->
                                                 IF k \in before
                                                 THEN StatusTable[status_mapping[k]]
                                                 ELSE status_mapping[k]]
                        /\ Raise("check_status_mapping")
    /\ UNCHANGED <<default_layer, old_nodes, users_dict, journal, db, paused,
                   answer, attempted, rollbacks, di, failed_deletes>>
    /\ UNCHANGED nvars
    /\ UNCHANGED <<old_link, rvars, avars, uvars>>

retrieve_nodes ==
    /\ pc = "retrieve_nodes"
    /\ \E t \in NodeTables :
       \E statuses \in [DOMAIN t -> LegacyStatusCodes] :
          /\ Len(t) <= legacy_left
          /\ old_nodes' = [k \in DOMAIN t |->
                              [id |-> k, email |-> t[k], status |-> statuses[k]]]
          /\ legacy_left' = legacy_left - Len(t)
    /\ pc' = "extract_users"
    /\ UNCHANGED <<i, status_mapping, default_layer, users_dict, email_todo, old_count,
                   acc, journal, db, paused, delete, answer, handler, raised_in,
                   attempted, rollbacks, di, failed_deletes>>
    /\ UNCHANGED nvars
    /\ UNCHANGED <<old_link, rvars, avars, uvars>>

\* A handle() that calls import_nodes right after extract_users.
extract_users_then_nodes ==
    /\ pc = "extract_users"
    /\ LET email_set == {old_nodes[k].email : k \in 1..Len(old_nodes)}
       IN  /\ users_dict' = [e \in email_set |-> NoId]
           /\ email_todo' = {}
    /\ pc' = "import_nodes"
    /\ i' = 1
    /\ UNCHANGED <<status_mapping, default_layer, old_nodes, old_count, legacy_left, acc, journal,
                   db, paused, delete, answer, handler, raised_in, attempted, rollbacks, di,
                   failed_deletes>>
    /\ UNCHANGED nvars
    /\ UNCHANGED <<old_link, rvars, avars, uvars>>

extract_users ==
    /\ pc = "extract_users"
    /\ LET email_set == {old_nodes[k].email : k \in 1..Len(old_nodes)}
       IN  /\ users_dict' = [e \in email_set |-> NoId]
           /\ email_todo' = email_set
    /\ pc' = "import_users"
    /\ UNCHANGED <<i, status_mapping, default_layer, old_nodes, old_count, legacy_left, acc, journal,
                   db, paused, delete, answer, handler, raised_in, attempted, rollbacks, di,
                   failed_deletes>>
    /\ UNCHANGED nvars
    /\ UNCHANGED <<old_link, rvars, avars, uvars>>

\* import_users: one iteration of "for email in self.email_set", and the
\* statements after the loop.
import_users ==
    /\ pc = "import_users"
    /\ \/ \E email \in email_todo, saved \in BOOLEAN :
             /\ email_todo' = email_todo \ {email}
             /\ IF saved
                THEN LET id == NextPk(db["users"])
                     IN  /\ db' = Insert(db, "users", [id |-> id, email |-> email])
                         /\ users_dict' = [users_dict EXCEPT ![email] = id]
                         /\ acc' = Append1(acc, "users", id)
                ELSE UNCHANGED <<db, users_dict, acc>>
             /\ UNCHANGED <<pc, i, journal>>
       \/ /\ email_todo = {}
          /\ journal' = [journal EXCEPT !["users"] = acc["users"]]
          /\ acc' = EmptyLists
          /\ pc' = "import_nodes"
          /\ i' = 1
          /\ UNCHANGED <<db, users_dict, email_todo>>
    /\ UNCHANGED <<status_mapping, default_layer, old_nodes, old_count, legacy_left, paused, delete,
                   answer, handler, raised_in, attempted, rollbacks, di, failed_deletes>>
    /\ UNCHANGED nvars
    /\ UNCHANGED <<old_link, rvars, avars, uvars>>

----------------------------------------------------------------------------
LAYER_APP_INSTALLED == TRUE
Discarded == "discarded"

\* prompt_layer_selection: the values of its "valid" dict, one of which it returns.
PromptAnswers(layers) == layers \cup {"default", "discard"}

\* An import_nodes that treats a node inside one layer as a node inside none.
AssignLayerOneAsNone(layers, prompted, dflt) ==
    IF Cardinality(layers) > 1
    THEN IF prompted \in Layers THEN prompted
         ELSE IF prompted = "default" /\ dflt # NoLayer THEN dflt
         ELSE Discarded
    ELSE IF dflt = NoLayer THEN Discarded ELSE dflt

\* An import_nodes that discards every node inside no layer.
AssignLayerNoneDiscarded(layers, prompted, dflt) ==
    IF Cardinality(layers) > 1
    THEN IF prompted \in Layers THEN prompted
         ELSE IF prompted = "default" /\ dflt # NoLayer THEN dflt
         ELSE Discarded
    ELSE IF Cardinality(layers) > 0
    THEN CHOOSE l \in layers : TRUE
    ELSE Discarded

\* An import_nodes that gives the default layer whatever layer was chosen.
AssignLayerChoiceIgnored(layers, prompted, dflt) ==
    IF Cardinality(layers) > 1
    THEN IF (prompted \in Layers \/ prompted = "default") /\ dflt # NoLayer THEN dflt
         ELSE Discarded
    ELSE IF Cardinality(layers) > 0
    THEN CHOOSE l \in layers : TRUE
    ELSE IF dflt = NoLayer THEN Discarded ELSE dflt

\* import_nodes: the layer given to a node inside the layers "layers", or
\* Discarded; "prompted" is what prompt_layer_selection returned.
AssignLayer(layers, prompted, dflt) ==
    IF Cardinality(layers) > 1
    THEN IF prompted \in Layers THEN prompted
         ELSE IF prompted = "default" /\ dflt # NoLayer THEN dflt
         ELSE Discarded
    ELSE IF Cardinality(layers) > 0
    THEN CHOOSE l \in layers : TRUE
    ELSE IF dflt = NoLayer THEN Discarded ELSE dflt

\* get_status: the value its body computes ...
StatusLookup(mapping, value) ==
    IF value \in DOMAIN mapping THEN mapping[value] ELSE mapping["default"]

\* ... and the value it returns: the body has no return statement.
get_status(mapping, value) == None

\* get_status raises KeyError: self.status_mapping['default'] is evaluated as
\* the second argument of .get() whatever the value.
GetStatusRaises(mapping) == "default" \notin DOMAIN mapping

\* An import_nodes without "if old_node.status == 'u': continue".
UnconfirmedNever(status) == FALSE

\* import_nodes: "if old_node.status == 'u': continue".
Unconfirmed(status) == status = "u"

\* str.lower() on the answers raw_input() may give.
Lower(raw) ==
    CASE raw = "Y" -> "y"
      [] raw = "N" -> "n"
      [] raw = "DEF" -> "def"
      [] OTHER -> raw

\* What raw_input() may give in prompt_layer_selection; a layer is chosen by
\* its id, which lower() leaves as it is.
LayerRawAnswers == {"", "default", "DEF", "discard", "dis", "maybe"} \cup Layers

\* prompt_layer_selection: its "valid" dict for the layers it was given.
Valid(layers) ==
    [k \in {"default", "def", "discard", "dis"} \cup layers |->
        CASE k \in {"default", "def"} -> "default"
          [] k \in {"discard", "dis"} -> "discard"
          [] OTHER -> k]

\* prompt_layer_selection: "answer" after lower() and the replacement of the
\* blank answer.
LayerAnswer(raw) == IF Lower(raw) = "" THEN "default" ELSE Lower(raw)

\* An import_nodes that makes the first user the owner of every node.
OwnerIdFirstUser(old_node) == 1

\* import_nodes: "user_id": self.users_dict[old_node.email]['id'].
OwnerId(old_node) == users_dict[old_node.email]

\* A prompt_layer_selection that takes an answer it does not know for "default".
PromptReturnDefaults(raw, layers) ==
    IF LayerAnswer(raw) \in DOMAIN Valid(layers)
    THEN Valid(layers)[LayerAnswer(raw)]
    ELSE "default"

\* prompt_layer_selection: what it returns for the answer "raw", Unset when
\* "answer in valid" is false and the loop takes another turn.
PromptReturn(raw, layers) ==
    IF LayerAnswer(raw) \in DOMAIN Valid(layers)
    THEN Valid(layers)[LayerAnswer(raw)]
    ELSE Unset

\* import_nodes: from "if old_node.postal_code" to the end of the iteration,
\* for a node that was given "layer"; for Discarded, the "continue".
SaveNode(layer) ==
    LET old_node == old_nodes[i]
    IN  IF layer = Discarded
        THEN /\ i' = i + 1
             /\ pc' = "import_nodes"
             /\ layer_id' = layer
             /\ UNCHANGED <<db, acc, handler, raised_in, delete, email_todo, old_count,
                            legacy_left, intersecting_layers, layer_answer, asked>>
        ELSE IF DOMAIN status_mapping # {} /\ GetStatusRaises(status_mapping)
        THEN /\ Raise("get_status")
             /\ intersecting_layers' = {}
             /\ layer_answer' = ""
             /\ layer_id' = Unset
             /\ asked' = 0
             /\ UNCHANGED db
        ELSE /\ i' = i + 1
             /\ pc' = "import_nodes"
             /\ layer_id' = layer
             /\ \E saved \in BOOLEAN :
                   IF saved
                   THEN /\ db' = Insert(db, "nodes",
                                        [id |-> old_node.id,
                                         \* old_node.status, kept to tell
                                         \* which status the node had
                                         old_status |-> old_node.status,
                                         user_id |-> OwnerId(old_node),
                                         layer |-> layer,
                                         status_id |-> IF DOMAIN status_mapping # {}
                                                       THEN get_status(status_mapping,
                                                                       old_node.status)
                                                       ELSE Unset])
                        /\ acc' = Append1(acc, "nodes", old_node.id)
                   ELSE UNCHANGED <<db, acc>>
             /\ UNCHANGED <<handler, raised_in, delete, email_todo, old_count, legacy_left,
                            intersecting_layers, layer_answer, asked>>

\* import_nodes: one iteration of "for old_node in self.old_nodes" up to
\* "intersecting_layers = node.intersecting_layers", and the statements after
\* the loop.
import_nodes ==
    /\ pc = "import_nodes"
    /\ \/ /\ i <= Len(old_nodes)
          /\ LET old_node == old_nodes[i]
             IN  IF Unconfirmed(old_node.status)
                 THEN /\ i' = i + 1
                      /\ UNCHANGED <<pc, acc, handler, raised_in, delete, email_todo,
                                     old_count, legacy_left, intersecting_layers, layer_answer,
                                     asked, layer_id>>
                 ELSE IF users_dict[old_node.email] = NoId
                 THEN /\ Raise("import_nodes")
                      /\ intersecting_layers' = {}
                      /\ layer_answer' = ""
                      /\ layer_id' = Unset
                      /\ asked' = 0
                 ELSE /\ \E layers \in SUBSET Layers : intersecting_layers' = layers
                      /\ layer_answer' = ""
                      /\ layer_id' = Unset
                      /\ asked' = 0
                      /\ pc' = "select_layer"
                      /\ UNCHANGED <<i, acc, handler, raised_in, delete, email_todo,
                                     old_count, legacy_left>>
          /\ UNCHANGED journal
       \/ /\ i > Len(old_nodes)
          /\ journal' = [journal EXCEPT !["nodes"] = acc["nodes"]]
          /\ acc' = EmptyLists
          /\ pc' = "import_devices"
          /\ i' = 0
          /\ intersecting_layers' = {}
          /\ layer_answer' = ""
          /\ layer_id' = Unset
          /\ asked' = 0
          /\ UNCHANGED <<handler, raised_in, delete, email_todo, old_count, legacy_left>>
    /\ UNCHANGED <<status_mapping, default_layer, old_nodes, users_dict, db, paused,
                   answer, attempted, rollbacks, di, failed_deletes>>
    /\ UNCHANGED <<old_link, rvars, avars, uvars>>

\* import_nodes: "if LAYER_APP_INSTALLED:" and the three cases of
\* len(intersecting_layers); with more than one layer the prompt is entered,
\* otherwise the iteration goes on to its end.
select_layer ==
    /\ pc = "select_layer"
    /\ IF LAYER_APP_INSTALLED /\ Cardinality(intersecting_layers) > 1
       THEN /\ pc' = "prompt_layer_selection"
            /\ UNCHANGED <<i, acc, db, handler, raised_in, delete, email_todo, old_count,
                           legacy_left, intersecting_layers, layer_answer, asked, layer_id>>
       ELSE SaveNode(IF LAYER_APP_INSTALLED
                     THEN AssignLayer(intersecting_layers, Unset, default_layer)
                     ELSE Unset)
    /\ UNCHANGED <<status_mapping, default_layer, old_nodes, users_dict, journal, paused,
                   answer, attempted, rollbacks, di, failed_deletes>>
    /\ UNCHANGED <<old_link, rvars, avars, uvars>>

\* prompt_layer_selection: "answer = raw_input().lower()" of its while loop.
prompt_layer_selection ==
    /\ pc = "prompt_layer_selection"
    /\ \E raw \in LayerRawAnswers :
          /\ asked + 1 < MaxPrompts \/ LayerAnswer(raw) \in DOMAIN Valid(intersecting_layers)
          /\ layer_answer' = raw
    /\ asked' = asked + 1
    /\ pc' = "prompt_answered"
    /\ UNCHANGED <<i, status_mapping, default_layer, old_nodes, users_dict, email_todo,
                   old_count, legacy_left, acc, journal, db, paused, delete, answer, handler,
                   raised_in, attempted, rollbacks, di, failed_deletes, intersecting_layers,
                   layer_id>>
    /\ UNCHANGED <<old_link, rvars, avars, uvars>>

\* prompt_layer_selection: the rest of the body of its while loop; on a valid
\* answer its return and the iteration of import_nodes to its end.
prompt_answered ==
    /\ pc = "prompt_answered"
    /\ IF PromptReturn(layer_answer, intersecting_layers) # Unset
       THEN SaveNode(AssignLayer(intersecting_layers,
                                 PromptReturn(layer_answer, intersecting_layers),
                                 default_layer))
       ELSE /\ pc' = "prompt_layer_selection"
            /\ UNCHANGED <<i, acc, db, handler, raised_in, delete, email_todo, old_count,
                           legacy_left, intersecting_layers, layer_answer, asked, layer_id>>
    /\ UNCHANGED <<status_mapping, default_layer, old_nodes, users_dict, journal, paused,
                   answer, attempted, rollbacks, di, failed_deletes>>
    /\ UNCHANGED <<old_link, rvars, avars, uvars>>

\* name__icontains: the names of the model are lower-case words none of which
\* is part of another.
IContains(name, needle) == name = needle

\* import_devices: reading the legacy table, one iteration of "for old_device
\* in self.old_devices", and the statements after the loop.
import_devices ==
    /\ pc = "import_devices"
    /\ \/ /\ i = 0
          /\ \E n \in 0..Min(MaxDevices, legacy_left) :
                /\ old_count' = n
                /\ legacy_left' = legacy_left - n
          /\ i' = 1
          /\ UNCHANGED <<db, acc, journal, pc, handler, raised_in, delete, email_todo>>
       \/ /\ i \in 1..old_count
          /\ \E node_id \in 1..MaxNodes, routing_protocol \in RoutingProtocolNames,
                valid \in BOOLEAN, add_raises \in BOOLEAN :
                LET saved == valid /\ node_id \in Ids(db["nodes"])
                    db1 == IF saved
                           THEN Insert(db, "devices", [id |-> i, node_id |-> node_id])
                           ELSE db
                    found == {r \in db["routing_protocols"] : IContains(r.name, routing_protocol)}
                    pk == NextPk(db["routing_protocols"])
                    db2 == IF found = {}
                           THEN Insert(db1, "routing_protocols",
                                       [id |-> pk, name |-> routing_protocol])
                           ELSE db1
                IN  /\ db' = db2
                    /\ IF ~saved /\ add_raises
                       THEN \* device.routing_protocols.add() for a device row that
                            \* does not exist: the relation row breaks a foreign key
                            Raise("import_devices")
                       ELSE /\ i' = i + 1
                            /\ acc' = LET a1 == IF saved THEN Append1(acc, "devices", i) ELSE acc
                                      IN  IF found = {}
                                          THEN Append1(a1, "routing_protocols", pk)
                                          ELSE a1
                            /\ UNCHANGED <<pc, handler, raised_in, delete, email_todo,
                                           old_count, legacy_left>>
          /\ UNCHANGED journal
       \/ /\ i > old_count
          /\ journal' = [journal EXCEPT !["devices"] = acc["devices"],
                                        !["routing_protocols"] = acc["routing_protocols"]]
          /\ acc' = EmptyLists
          /\ pc' = "import_interfaces"
          /\ i' = 0
          /\ old_count' = 0
          /\ UNCHANGED <<db, legacy_left, handler, raised_in, delete, email_todo>>
    /\ UNCHANGED <<status_mapping, default_layer, old_nodes, users_dict, paused,
                   answer, attempted, rollbacks, di, failed_deletes>>
    /\ UNCHANGED nvars
    /\ UNCHANGED <<old_link, rvars, avars, uvars>>

----------------------------------------------------------------------------
\* import_interfaces: the type tag of the model chosen for old_interface.type.
InterfaceType(old_type) ==
    CASE old_type = "eth" -> "ethernet"
      [] old_type = "wifi" -> "wireless"
      [] old_type = "bridge" -> "bridge"
      [] old_type = "vpn" -> "tunnel"
      [] OTHER -> "virtual"

\* ip.IPAddress() accepts the address.
ValidAddress(address) == address \in {"10.0.0.1", "fe80::1"}

\* The shapes of the rows of the legacy interface table.
OldInterfaceRows ==
    { [type |-> "eth", essid |-> "", ipv4_address |-> "10.0.0.1", ipv6_address |-> ""],
      [type |-> "wifi", essid |-> "net", ipv4_address |-> "not an address",
       ipv6_address |-> ""] }

\* import_interfaces: reading the legacy table, one iteration of "for
\* old_interface in self.old_interfaces", and the statements after the loop.
import_interfaces ==
    /\ pc = "import_interfaces"
    /\ \/ /\ i = 0
          /\ \E n \in 0..Min(MaxInterfaces, legacy_left) :
                /\ old_count' = n
                /\ legacy_left' = legacy_left - n
          /\ i' = 1
          /\ UNCHANGED <<db, acc, journal, pc>>
       \/ /\ i \in 1..old_count
          /\ \E device_id \in 1..MaxDevices, old_interface \in OldInterfaceRows :
             \E valid \in BOOLEAN, vap_valid \in BOOLEAN, ipv4_valid \in BOOLEAN,
                ipv6_valid \in BOOLEAN :
                LET type == old_interface.type
                    vap == type = "wifi" /\ old_interface.essid # ""
                    ipv4 == old_interface.ipv4_address # ""
                            /\ ValidAddress(old_interface.ipv4_address)
                    ipv6 == old_interface.ipv6_address # ""
                            /\ ValidAddress(old_interface.ipv6_address)
                    saved == valid /\ device_id \in Ids(db["devices"])
                    sub == [id |-> i, interface_id |-> i]
                    db1 == Insert(db, "interfaces",
                                  [id |-> i, device_id |-> device_id,
                                   type |-> InterfaceType(type)])
                    db2 == IF vap /\ vap_valid THEN Insert(db1, "vaps", sub) ELSE db1
                    db3 == IF ipv4 /\ ipv4_valid THEN Insert(db2, "ipv4", sub) ELSE db2
                    db4 == IF ipv6 /\ ipv6_valid THEN Insert(db3, "ipv6", sub) ELSE db3
                    a1 == Append1(acc, "interfaces", i)
                    a2 == IF vap /\ vap_valid THEN Append1(a1, "vaps", i) ELSE a1
                    a3 == IF ipv4 /\ ipv4_valid THEN Append1(a2, "ipv4", i) ELSE a2
                    a4 == IF ipv6 /\ ipv6_valid THEN Append1(a3, "ipv6", i) ELSE a3
                IN  IF saved
                    THEN db' = db4 /\ acc' = a4
                    ELSE UNCHANGED <<db, acc>>
          /\ i' = i + 1
          /\ UNCHANGED <<journal, old_count, legacy_left, pc>>
       \/ /\ i > old_count
          /\ journal' = [journal EXCEPT !["interfaces"] = acc["interfaces"],
                                        !["vaps"] = acc["vaps"],
                                        !["ipv4"] = acc["ipv4"],
                                        !["ipv6"] = acc["ipv6"]]
          /\ acc' = EmptyLists
          /\ pc' = "import_links"
          /\ i' = 0
          /\ old_count' = 0
          /\ UNCHANGED <<db, legacy_left>>
    /\ UNCHANGED <<status_mapping, default_layer, old_nodes, users_dict, email_todo, paused,
                   delete, answer, handler, raised_in, attempted, rollbacks, di, failed_deletes>>
    /\ UNCHANGED nvars
    /\ UNCHANGED <<old_link, rvars, avars, uvars>>

\* An import_links that leaves the type of the interfaces as it is.
RetypedNot(d, id) == d

\* import_links: "interface.type = wireless; interface.save()" for the row of
\* that primary key when Interface.objects.get() finds it.
Retyped(d, id) ==
    [d EXCEPT !["interfaces"] =
        {IF r.id = id THEN [r EXCEPT !.type = "wireless"] ELSE r : r \in @}]

\* import_links: reading the legacy table, one iteration of "for old_link in
\* self.old_links", and the statements after the loop.
import_links ==
    /\ pc = "import_links"
    /\ \/ /\ i = 0
          /\ \E n \in 0..Min(MaxLinks, legacy_left) :
                /\ old_count' = n
                /\ legacy_left' = legacy_left - n
          /\ i' = 1
          /\ UNCHANGED <<db, acc, journal, pc, old_link>>
       \/ /\ i \in 1..old_count
          /\ \E from_interface_id \in 1..MaxInterfaces, to_interface_id \in 1..MaxInterfaces,
                valid \in BOOLEAN :
                LET a_exists == from_interface_id \in Ids(db["interfaces"])
                    db1 == IF a_exists THEN Retyped(db, from_interface_id) ELSE db
                    b_exists == to_interface_id \in Ids(db1["interfaces"])
                    db2 == IF b_exists THEN Retyped(db1, to_interface_id) ELSE db1
                    skip == ~a_exists \/ ~b_exists
                IN  /\ IF ~skip /\ valid
                       THEN /\ db' = Insert(db2, "links",
                                            [id |-> i, a |-> from_interface_id,
                                             b |-> to_interface_id])
                            /\ acc' = Append1(acc, "links", i)
                       ELSE /\ db' = db2
                            /\ UNCHANGED acc
                    /\ old_link' = [from_interface_id |-> from_interface_id,
                                     to_interface_id |-> to_interface_id]
          /\ i' = i + 1
          /\ UNCHANGED <<journal, old_count, legacy_left, pc>>
       \/ /\ i > old_count
          /\ journal' = [journal EXCEPT !["links"] = acc["links"]]
          /\ acc' = EmptyLists
          /\ pc' = "import_contacts"
          /\ i' = 0
          /\ old_count' = 0
          /\ old_link' = NoLink
          /\ UNCHANGED <<db, legacy_left>>
    /\ UNCHANGED <<status_mapping, default_layer, old_nodes, users_dict, email_todo, paused,
                   delete, answer, handler, raised_in, attempted, rollbacks, di, failed_deletes>>
    /\ UNCHANGED nvars
    /\ UNCHANGED <<rvars, avars, uvars>>

\* import_contacts: reading the legacy table, one iteration of "for old_contact
\* in self.old_contacts", and the statements after the loop.
import_contacts ==
    /\ pc = "import_contacts"
    /\ \/ /\ i = 0
          /\ \E n \in 0..Min(MaxContacts, legacy_left) :
                /\ old_count' = n
                /\ legacy_left' = 0
          /\ i' = 1
          /\ UNCHANGED <<db, acc, journal, pc>>
       \/ /\ i \in 1..old_count
          /\ \E valid \in BOOLEAN :
                IF valid
                THEN /\ db' = Insert(db, "contacts", [id |-> i])
                     /\ acc' = Append1(acc, "contacts", i)
                ELSE UNCHANGED <<db, acc>>
          /\ i' = i + 1
          /\ UNCHANGED <<journal, old_count, legacy_left, pc>>
       \/ /\ i > old_count
          /\ journal' = [journal EXCEPT !["contacts"] = acc["contacts"]]
          /\ acc' = EmptyLists
          /\ pc' = "confirm"
          /\ i' = 0
          /\ old_count' = 0
          /\ UNCHANGED <<db, legacy_left>>
    /\ UNCHANGED <<status_mapping, default_layer, old_nodes, users_dict, email_todo, paused,
                   delete, answer, handler, raised_in, attempted, rollbacks, di, failed_deletes>>
    /\ UNCHANGED nvars
    /\ UNCHANGED <<old_link, rvars, avars, uvars>>

----------------------------------------------------------------------------
\* What raw_input() may give.
RawAnswers == {"", "y", "Y", "n", "N", "maybe"}

\* confirm_operation_completed: the answer its while loop accepts, after
\* lower() and the replacement of the blank answer.
Normalised(raw) == IF Lower(raw) = "" THEN "y" ELSE Lower(raw)

\* Entering delete_imported_data.
EnterDelete ==
    /\ rollbacks' = rollbacks + 1
    /\ attempted' = {}
    /\ di' = 1

\* confirm_operation_completed: one raw_input() of its while loop and, on a
\* valid answer, the if that follows the loop.
confirm_operation_completed ==
    /\ pc = "confirm"
    /\ \E raw \in RawAnswers :
          IF Normalised(raw) \in {"y", "n"}
          THEN /\ answer' = Normalised(raw)
               /\ IF Normalised(raw) = "n"
                  THEN /\ pc' = "confirm_rollback"
                       /\ EnterDelete
                  ELSE /\ pc' = "resume_signals"
                       /\ UNCHANGED <<rollbacks, attempted, di>>
          ELSE UNCHANGED <<answer, pc, rollbacks, attempted, di>>
    /\ UNCHANGED <<i, status_mapping, default_layer, old_nodes, users_dict, email_todo,
                   old_count, legacy_left, acc, journal, db, paused, delete, handler, raised_in,
                   failed_deletes>>
    /\ UNCHANGED nvars
    /\ UNCHANGED <<old_link, rvars, avars, uvars>>

\* A delete_imported_data that returns at the first delete() that raises.
AfterFailedDeleteReturns(k) == Len(DeleteSequence) + 1

\* delete_imported_data: where its loops go on after a delete() raised. The
\* except clause is inside the loop body: the next entry.
AfterFailedDelete(k) == k + 1

\* delete_imported_data: one iteration of one of its for loops (delete() and
\* the except clause around it), and its return.
delete_imported_data ==
    /\ pc \in {"confirm_rollback", "handle_rollback"}
    /\ \/ /\ di <= Len(DeleteSequence)
          /\ \/ /\ db' = DeleteRow(db, DeleteSequence[di][1], DeleteSequence[di][2])
                /\ di' = di + 1
                /\ UNCHANGED failed_deletes
             \/ /\ failed_deletes < MaxFailedDeletes
                /\ failed_deletes' = failed_deletes + 1
                /\ di' = AfterFailedDelete(di)
                /\ UNCHANGED db
          /\ attempted' = attempted \cup {DeleteSequence[di]}
          /\ UNCHANGED pc
       \/ /\ di > Len(DeleteSequence)
          /\ pc' = IF pc = "confirm_rollback" THEN "resume_signals" ELSE "done"
          /\ di' = 0
          /\ UNCHANGED <<db, attempted, failed_deletes>>
    /\ UNCHANGED <<i, status_mapping, default_layer, old_nodes, users_dict, email_todo,
                   old_count, legacy_left, acc, journal, paused, delete, answer, handler, raised_in,
                   rollbacks>>
    /\ UNCHANGED nvars
    /\ UNCHANGED <<old_link, rvars, avars, uvars>>

\* handle(): resume_disconnectable_signals(), the last statements of the try block.
resume_signals ==
    /\ pc = "resume_signals"
    /\ paused' = FALSE
    /\ pc' = "if_delete"
    /\ UNCHANGED <<i, status_mapping, default_layer, old_nodes, users_dict, email_todo,
                   old_count, legacy_left, acc, journal, db, delete, answer, handler, raised_in,
                   attempted, rollbacks, di, failed_deletes>>
    /\ UNCHANGED nvars
    /\ UNCHANGED <<old_link, rvars, avars, uvars>>

\* handle(): "if delete: self.delete_imported_data()".
if_delete ==
    /\ pc = "if_delete"
    /\ IF delete
       THEN /\ pc' = "handle_rollback"
            /\ EnterDelete
       ELSE /\ pc' = "done"
            /\ UNCHANGED <<rollbacks, attempted, di>>
    /\ UNCHANGED <<i, status_mapping, default_layer, old_nodes, users_dict, email_todo,
                   old_count, legacy_left, acc, journal, db, paused, delete, answer, handler, raised_in,
                   failed_deletes>>
    /\ UNCHANGED nvars
    /\ UNCHANGED <<old_link, rvars, avars, uvars>>

\* KeyboardInterrupt. Inside the try block "except KeyboardInterrupt" runs;
\* after it nothing catches the interrupt and it leaves handle().
KeyboardInterrupt ==
    /\ \/ /\ pc \in TryBlock
          /\ handler' = "KeyboardInterrupt"
          /\ delete' = DeleteAfter("KeyboardInterrupt")
          /\ pc' = "if_delete"
       \/ /\ pc \in {"if_delete", "handle_rollback"}
          /\ pc' = "aborted"
          /\ UNCHANGED <<handler, delete>>
    /\ i' = 0
    /\ di' = 0
    /\ acc' = EmptyLists
    /\ email_todo' = {}
    /\ old_count' = 0
    /\ legacy_left' = 0
    /\ intersecting_layers' = {}
    /\ layer_answer' = ""
    /\ layer_id' = Unset
    /\ asked' = 0
    /\ old_link' = NoLink
    /\ UNCHANGED <<status_mapping, default_layer, old_nodes, users_dict,
                   journal, db, paused, answer, raised_in, attempted, rollbacks,
                   failed_deletes>>
    /\ UNCHANGED <<rvars, avars, uvars>>

Next ==
    \/ Start
    \/ check_status_mapping
    \/ retrieve_nodes
    \/ extract_users
    \/ import_users
    \/ import_nodes
    \/ select_layer
    \/ prompt_layer_selection
    \/ prompt_answered
    \/ import_devices
    \/ import_interfaces
    \/ import_links
    \/ import_contacts
    \/ confirm_operation_completed
    \/ delete_imported_data
    \/ resume_signals
    \/ if_delete
    \/ KeyboardInterrupt

Spec == Init /\ [][Next]_vars

\* Bound of the number of handle() calls made on one command object.
MaxRuns == 2

\* handle() is called again on the command object after it returned. The
\* attributes of the object (self.saved_*, self.routing_protocols_added,
\* self.old_nodes, self.users_dict, the status_mapping dict) and the store are
\* as the run before left them; "delete" is a local, set to False at line 116.
\* The rows the runs read from the legacy database count against one bound.
handle_again ==
    /\ pc = "done"
    /\ run < MaxRuns
    /\ run' = run + 1
    /\ committed_before' = UNION {{<<k, r.id>> : r \in db[k] \ InitialDb[k]} : k \in Kinds}
    /\ pc' = "start"
    /\ delete' = FALSE
    /\ answer' = ""
    /\ handler' = "none"
    /\ raised_in' = "none"
    /\ attempted' = {}
    /\ rollbacks' = 0
    /\ failed_deletes' = 0
    /\ UNCHANGED <<i, status_mapping, default_layer, old_nodes, users_dict, email_todo,
                   old_count, legacy_left, acc, journal, db, paused, di>>
    /\ UNCHANGED nvars
    /\ UNCHANGED <<old_link, avars, uvars>>

NextRuns ==
    \/ Start
    \/ check_status_mapping
    \/ retrieve_nodes
    \/ extract_users
    \/ import_users
    \/ import_nodes
    \/ select_layer
    \/ prompt_layer_selection
    \/ prompt_answered
    \/ import_devices
    \/ import_interfaces
    \/ import_links
    \/ import_contacts
    \/ confirm_operation_completed
    \/ delete_imported_data
    \/ resume_signals
    \/ if_delete
    \/ KeyboardInterrupt
    \/ handle_again

SpecRuns == Init /\ [][NextRuns]_vars

----------------------------------------------------------------------------
(***************************************************************************)
(* CitySdkMobilityMixin: one call of add(node), change(node) or            *)
(* delete(external_id).                                                     *)
(***************************************************************************)

\* The nodes a call is made for: node.data holds keys or is empty, some of the
\* optional attributes are set, an external record exists or not.
AdapterNodes ==
    [slug : {"node-1"},
     data : {{}, {"postal_code"}},
     attributes : {{}, {"status", "elev"}},
     external_id : {None, "cdk.node-1"}]

\* convert_format: the key of "data" written for an attribute that is set.
DataKey(attribute) ==
    CASE attribute = "status" -> "status"
      [] attribute = "description" -> "description"
      [] attribute = "address" -> "address"
      [] attribute = "elev" -> "elevation"
      [] attribute = "user" -> "owner"

\* convert_format: the dict "data" after the five ifs.
ConvertedData(node) == node.data \cup {DataKey(x) : x \in node.attributes}

\* convert_format: node.data after the call. "data = node.data or {}" is
\* node.data itself unless node.data is empty.
DataAfterConvert(node) == IF node.data = {} THEN node.data ELSE ConvertedData(node)

\* convert_format raises: node.external of a node without external record.
ConvertRaises(node, create_type) == create_type = "update" /\ node.external_id = None

\* A convert_format that writes the slug as 'id' whatever the create_type.
convert_format_slug_only(node, create_type) ==
    [create |-> [params |-> [create_type |-> create_type, srid |-> 4326]],
     nodes |-> <<[name |-> node.slug, geom |-> "geometry", data |-> ConvertedData(node),
                  id |-> node.slug]>>]

\* convert_format: the dict it returns.
convert_format(node, create_type) ==
    LET common == [name |-> node.slug, geom |-> "geometry", data |-> ConvertedData(node)]
        entry == IF create_type = "create"
                 THEN [name |-> common.name, geom |-> common.geom, data |-> common.data,
                       id |-> node.slug]
                 ELSE IF create_type = "update"
                 THEN [name |-> common.name, geom |-> common.geom, data |-> common.data,
                       cdk_id |-> node.external_id]
                 ELSE common
    IN  [create |-> [params |-> [create_type |-> create_type, srid |-> 4326]],
         nodes |-> <<entry>>]

\* What the provider may answer.
StatusCodes == {200, 201, 401, 500}
AuthContents == {"token", "empty token", "no results", "not json"}
Contents == {"json", "not json"}

\* An exception leaves the call.
AdapterRaise(exception, cause) ==
    /\ a_exception' = [type |-> exception, cause |-> cause]
    /\ a_pc' = "raised"

\* The caller invokes add, change or delete.
Call ==
    /\ a_pc = "idle"
    /\ \E call \in {"add", "change", "delete"}, node \in AdapterNodes :
          /\ a_call' = call
          /\ a_node' = node
          /\ a_node_passed' = node
    /\ a_pc' = "get_session"
    /\ UNCHANGED <<a_session, a_record, a_response, a_requests, a_acquired, a_released,
                   a_result, a_exception>>
    /\ UNCHANGED <<pvars, uvars>>

\* get_session: json.loads(response.content)['results'][0].
ParsedSession(content) ==
    CASE content = "token" -> "session-token"
      [] content = "empty token" -> ""
      [] OTHER -> None

ParseSessionRaises(content) == content \in {"no results", "not json"}

get_session ==
    /\ a_pc = "get_session"
    /\ a_requests' = Append(a_requests, "get_session")
    /\ \/ \* requests.get raises
          /\ AdapterRaise("ImproperlyConfigured", "transport")
          /\ UNCHANGED <<a_session, a_acquired>>
       \/ \E status_code \in StatusCodes, content \in AuthContents :
             IF status_code # 200
             THEN /\ AdapterRaise("ImproperlyConfigured", "status code")
                  /\ UNCHANGED <<a_session, a_acquired>>
             ELSE IF ParseSessionRaises(content)
             THEN /\ AdapterRaise("parse error", "payload")
                  /\ UNCHANGED <<a_session, a_acquired>>
             ELSE /\ a_session' = ParsedSession(content)
                  /\ a_acquired' = a_acquired + 1
                  /\ a_pc' = IF a_call = "delete" THEN "request" ELSE "convert_format"
                  /\ UNCHANGED a_exception
    /\ UNCHANGED <<a_call, a_node, a_node_passed, a_record, a_response, a_released, a_result>>
    /\ UNCHANGED <<pvars, uvars>>

\* add / change: citysdk_record = self.convert_format(node[, 'update']).
Convert ==
    /\ a_pc = "convert_format"
    /\ LET create_type == IF a_call = "add" THEN "create" ELSE "update"
       IN  IF ConvertRaises(a_node, create_type)
           THEN /\ AdapterRaise("DoesNotExist", "node.external")
                /\ UNCHANGED <<a_record, a_node>>
           ELSE /\ a_record' = convert_format(a_node, create_type)
                /\ a_node' = [a_node EXCEPT !.data = DataAfterConvert(a_node)]
                /\ a_pc' = "request"
                /\ UNCHANGED a_exception
    /\ UNCHANGED <<a_call, a_node_passed, a_session, a_response, a_requests, a_acquired,
                   a_released, a_result>>
    /\ UNCHANGED <<pvars, uvars>>

\* An add / change / delete that sends its request again after an answer
\* whose status code is not 200.
AfterResponseRetry(response) ==
    IF response.status_code # 200 THEN "request" ELSE "release_session"

\* add / change / delete: the statement that follows the request, whatever
\* the response: self.release_session(session).
AfterResponse(response) == "release_session"

\* requests.put(...) of add / change, requests.delete(...) of delete.
Request ==
    /\ a_pc = "request"
    /\ a_requests' = Append(a_requests, IF a_call = "delete" THEN "delete" ELSE "put")
    /\ \/ /\ AdapterRaise("ConnectionError", "transport")
          /\ UNCHANGED a_response
       \/ /\ \E status_code \in StatusCodes, content \in Contents :
                a_response' = [status_code |-> status_code, content |-> content]
          /\ a_pc' = AfterResponse(a_response')
          /\ UNCHANGED a_exception
    /\ UNCHANGED <<a_call, a_node, a_node_passed, a_session, a_record, a_acquired, a_released,
                   a_result>>
    /\ UNCHANGED <<pvars, uvars>>

\* self.release_session(session); its result is not used.
release_session ==
    /\ a_pc = "release_session"
    /\ a_requests' = Append(a_requests, "release_session")
    /\ \/ /\ AdapterRaise("ConnectionError", "transport")
          /\ UNCHANGED a_released
       \/ /\ \E status_code \in StatusCodes : a_released' = a_released + 1
          /\ a_pc' = "evaluate"
          /\ UNCHANGED a_exception
    /\ UNCHANGED <<a_call, a_node, a_node_passed, a_session, a_record, a_response, a_acquired,
                   a_result>>
    /\ UNCHANGED <<pvars, uvars>>

\* An add / change / delete that goes by the body of the response alone.
ReturnedByBody(call, response) == response.content = "json"

\* add / change / delete: what the call returns for the response.
Returned(call, response) ==
    IF response.status_code # 200 THEN FALSE
    ELSE IF call # "delete" /\ response.content = "not json" THEN FALSE
    ELSE TRUE

\* The statements after release_session, to the return.
Evaluate ==
    /\ a_pc = "evaluate"
    /\ a_result' = IF Returned(a_call, a_response) THEN "True" ELSE "False"
    /\ a_pc' = "returned"
    /\ UNCHANGED <<a_call, a_node, a_node_passed, a_session, a_record, a_response, a_requests, a_acquired,
                   a_released, a_exception>>
    /\ UNCHANGED <<pvars, uvars>>

InitAdapter ==
    /\ Init
    /\ status_mapping = NoMapping

NextAdapter ==
    \/ Call
    \/ get_session
    \/ Convert
    \/ Request
    \/ release_session
    \/ Evaluate

SpecAdapter == InitAdapter /\ [][NextAdapter]_vars

----------------------------------------------------------------------------
(***************************************************************************)
(* import_users, username by username: the name built from the owner or    *)
(* the e-mail, its slug, and the loop that makes the username unique.      *)
(* A username is the sequence of its parts: a word, then one part for      *)
(* every digit that follows it.                                            *)
(***************************************************************************)

\* Bound of the number of users import_users builds.
MaxUsers == 3

\* The (owner, email) pairs of users_dict.
LegacyOwners ==
    { [owner |-> " ", email |-> "j.doe@a.org"],
      [owner |-> "J Doe", email |-> "jd@a.org"],
      [owner |-> "jdoe", email |-> "jdoe@a.org"],
      [owner |-> "jdoe2", email |-> "jdoe2@a.org"] }

\* Usernames the store may hold before the run.
PreexistingUsernames == {<<"jdoe">>, <<"jdoe", "2">>, <<"j-doe">>}

\* owner.strip() == ''
Blank(owner) == owner \in {"", " "}

\* "owner, domain = email.split('@')" and "owner.replace('.', ' ')".
OwnerFromEmail(email) ==
    CASE email = "j.doe@a.org" -> "j doe"
      [] email = "jd@a.org" -> "jd"
      [] email = "jdoe@a.org" -> "jdoe"
      [] email = "jdoe2@a.org" -> "jdoe2"

\* import_users: "owner" after the handling of the blank owner.
DerivedOwner(entry) == IF Blank(entry.owner) THEN OwnerFromEmail(entry.email) ELSE entry.owner

\* slugify(owner)
Slugify(owner) ==
    CASE owner = "j doe" -> <<"j-doe">>
      [] owner = "J Doe" -> <<"j-doe">>
      [] owner = "jd" -> <<"jd">>
      [] owner = "jdoe" -> <<"jdoe">>
      [] owner = "jdoe2" -> <<"jdoe", "2">>

\* '%d' % counter
Digits(counter) ==
    CASE counter = 2 -> <<"2">>
      [] counter = 3 -> <<"3">>
      [] counter = 4 -> <<"4">>
      [] counter = 5 -> <<"5">>
      [] counter = 6 -> <<"6">>
      [] counter = 7 -> <<"7">>
      [] counter = 8 -> <<"8">>
      [] counter = 9 -> <<"9">>

\* '%s%d' % (original_username, counter)
Suffixed(original_username, counter) == original_username \o Digits(counter)

\* An import_users that does not look for the username in the store.
TakenNever(username) == FALSE

\* User.objects.filter(username=user.username).count() > 0
Taken(username) == username \in u_users

\* The sequences of users import_users may have to build.
OwnerSequences == UNION {[1..n -> LegacyOwners] : n \in 0..MaxUsers}

InitUsernames ==
    /\ AdapterInit
    /\ ImporterInit
    /\ status_mapping = NoMapping
    /\ u_pc = "for"
    /\ u_owners \in OwnerSequences
    /\ u_preexisting \in SUBSET PreexistingUsernames
    /\ u_users = u_preexisting
    /\ u_created = <<>>
    /\ u_original = <<>>
    /\ u_username = <<>>
    /\ u_counter = 0

\* import_users: "for email in self.email_set" up to "counter = 1;
\* original_username = username".
BuildUser ==
    /\ u_pc = "for"
    /\ IF u_owners = <<>>
       THEN /\ u_pc' = "end"
            /\ UNCHANGED <<u_original, u_username, u_counter>>
       ELSE /\ u_username' = Slugify(DerivedOwner(Head(u_owners)))
            /\ u_original' = Slugify(DerivedOwner(Head(u_owners)))
            /\ u_counter' = 1
            /\ u_pc' = "while"
    /\ UNCHANGED <<u_owners, u_preexisting, u_users, u_created>>
    /\ UNCHANGED <<pvars, avars>>

\* import_users: one turn of "while True" ("be sure username is unique").
UniqueUsername ==
    /\ u_pc = "while"
    /\ IF Taken(u_username)
       THEN /\ u_counter' = u_counter + 1
            /\ u_username' = Suffixed(u_original, u_counter + 1)
            /\ UNCHANGED u_pc
       ELSE /\ u_pc' = "save"
            /\ UNCHANGED <<u_counter, u_username>>
    /\ UNCHANGED <<u_owners, u_preexisting, u_users, u_created, u_original>>
    /\ UNCHANGED <<pvars, avars>>

\* import_users: user.full_clean() and user.save(), or the except clause.
SaveUser ==
    /\ u_pc = "save"
    /\ \E saved \in BOOLEAN :
          IF saved
          THEN /\ u_users' = u_users \cup {u_username}
               /\ u_created' = Append(u_created, u_username)
          ELSE UNCHANGED <<u_users, u_created>>
    /\ u_owners' = Tail(u_owners)
    /\ u_pc' = "for"
    /\ UNCHANGED <<u_preexisting, u_original, u_username, u_counter>>
    /\ UNCHANGED <<pvars, avars>>

NextUsernames ==
    \/ BuildUser
    \/ UniqueUsername
    \/ SaveUser

SpecUsernames == InitUsernames /\ [][NextUsernames]_vars

----------------------------------------------------------------------------
(***************************************************************************)
(* Properties of the importer (Spec) and of the synchronizer (SpecAdapter). *)
(***************************************************************************)

RecordPhases == {"import_users", "import_nodes", "import_devices", "import_interfaces",
                 "import_links", "import_contacts"}

\* handle() has returned after a rejection, an exception or an interrupt.
ReturnedAfterTrigger == pc = "done" /\ (answer = "n" \/ handler # "none")

\* C1: after the operator's rejection, a fatal exception or an interrupt at
\* any point of the run, once handle() has returned (and no delete() failed)
\* the store holds no user, node, device, interface, link or contact of the run.
C1_NothingOfTheRunRemains ==
    (ReturnedAfterTrigger /\ failed_deletes = 0) =>
        \A k \in {"users", "nodes", "devices", "interfaces", "links", "contacts"} :
            db[k] = InitialDb[k]

\* C2: in every reachable state, every entity the run has persisted is in the
\* journal under its kind.
C2_PersistedIsJournaled ==
    \A k \in Kinds : Ids(db[k] \ InitialDb[k]) \subseteq Range(journal[k])

\* C3: a validation or persistence failure of one record never raises out of
\* its phase.
C3_RecordFailureStaysInPhase == raised_in \notin RecordPhases

\* C6: with a status mapping, the status of every imported node is the
\* mapping's value for the node's legacy status code, or the mapping's
\* 'default' entry when the code is not a key of the mapping.
C6_StatusIsMapped ==
    DOMAIN status_mapping # {} =>
        \A n \in db["nodes"] : n.status_id = StatusLookup(status_mapping, n.old_status)

\* The mapping has a target that is neither the slug nor (once replaced) the
\* id of a row of the Status table.
InvalidTarget ==
    \E k \in DOMAIN status_mapping :
        status_mapping[k] \notin StatusSlugs \cup {StatusTable[x] : x \in StatusSlugs}

\* C7: with a mapping target that is no existing status the run fails before
\* any record phase: no legacy row is read, nothing is written to the store,
\* and the run is past check_status_mapping only through an except clause.
C7_InvalidMappingFailsFirst ==
    InvalidTarget =>
        /\ old_nodes = <<>>
        /\ DOMAIN users_dict = {}
        /\ db = InitialDb
        /\ journal = EmptyLists
        /\ pc \notin {"start", "check_status_mapping"} => handler # "none"
        /\ pc \notin RecordPhases \cup {"retrieve_nodes", "extract_users", "confirm",
                                        "confirm_rollback", "resume_signals"}

C7_Witness ==
    InvalidTarget /\ pc = "done" /\ handler = "Exception"
                  /\ raised_in = "check_status_mapping" /\ rollbacks = 1

\* The order of kinds a rollback has to follow.
RollbackOrder == <<"interfaces", "devices", "routing_protocols", "nodes", "contacts", "users">>

\* C8: during rollback no entity of a later kind of RollbackOrder has its
\* delete attempted before every journaled entity of the earlier kinds.
C8_StrictKindOrder ==
    \A p, q \in DOMAIN RollbackOrder :
        (p < q /\ \E e \in attempted : e[1] = RollbackOrder[q]) =>
            \A id \in Range(journal[RollbackOrder[p]]) : <<RollbackOrder[p], id>> \in attempted

C8_Witness ==
    /\ pc = "handle_rollback"
    /\ \E e \in attempted : e[1] = "nodes"
    /\ journal["interfaces"] # <<>>
    /\ journal["users"] # <<>>

\* delete_imported_data has returned.
RollbackCompleted == rollbacks > 0 /\ pc \in {"resume_signals", "done"}

\* C9, as stated: a failed delete does not stop the rollback, a delete is
\* attempted for every journal entry of every kind.
C9_EveryKindAttempted ==
    RollbackCompleted =>
        \A k \in Kinds : \A id \in Range(journal[k]) : <<k, id>> \in attempted

\* C9, amended: a failed delete does not stop the rollback, a delete is
\* attempted for every journaled interface, device, routing protocol, node,
\* contact and user; journaled links, vaps and addresses have no delete of
\* their own.
C9_EveryLoopedKindAttempted ==
    RollbackCompleted =>
        /\ \A k \in Range(RollbackOrder) :
              \A id \in Range(journal[k]) : <<k, id>> \in attempted
        /\ \A e \in attempted : e[1] \in Range(RollbackOrder)

\* The delete() of a contact failed and the users were gone through after it.
C9_Witness ==
    /\ RollbackCompleted
    /\ failed_deletes > 0
    /\ db["contacts"] # {}
    /\ \E e \in attempted : e[1] = "users"

\* C10: a rollback is executed after an exception, after an interrupt and
\* after the operator's rejection; none is executed when the operator accepts
\* ('y' or blank), and then every journaled entity is still in the store.
C10_RollbackTriggers ==
    /\ answer = "n" => rollbacks >= 1
    /\ (pc = "done" /\ handler # "none") => rollbacks >= 1
    /\ (pc = "done" /\ handler = "none" /\ answer = "y") =>
          /\ rollbacks = 0
          /\ \A k \in Kinds : Range(journal[k]) \subseteq Ids(db[k])

C10_Witness ==
    /\ pc = "done"
    /\ handler = "KeyboardInterrupt"
    /\ rollbacks = 1
    /\ attempted # {}

\* The call has ended, by a return or by an exception.
CallEnded == a_pc \in {"returned", "raised"}

ReleaseRequests == {k \in DOMAIN a_requests : a_requests[k] = "release_session"}

\* C4: add, change and delete release the session they acquired exactly once
\* on every exit path, the exceptions raised after the acquisition included.
C4_SessionReleasedOnce ==
    (CallEnded /\ a_acquired = 1) => Cardinality(ReleaseRequests) = 1

\* C5: no exception reaches the caller of add, change or delete when the
\* provider answers one of its requests with a status code that is not 2xx or
\* with a malformed payload.
C5_NoExceptionOnBadAnswer ==
    a_pc = "raised" => a_exception.cause \notin {"status code", "payload"}

\* handle(): the record phases in the order of its calls, and the kinds of
\* rows each of them saves.
PhaseOrder == <<"import_users", "import_nodes", "import_devices", "import_interfaces",
                "import_links", "import_contacts">>
PhaseKinds == [import_users |-> {"users"},
               import_nodes |-> {"nodes"},
               import_devices |-> {"devices", "routing_protocols"},
               import_interfaces |-> {"interfaces", "vaps", "ipv4", "ipv6"},
               import_links |-> {"links"},
               import_contacts |-> {"contacts"}]

\* The loop of the phase has gone through all of its records.
PhaseDone(phase) ==
    CASE phase = "import_users" -> email_todo = {}
      [] phase = "import_nodes" -> i > Len(old_nodes)
      [] OTHER -> i >= 1 /\ i > old_count

\* The phase a position of the command belongs to: the steps of the body of
\* the loop of import_nodes are positions of that phase.
PhaseOf(p) ==
    IF p \in {"select_layer", "prompt_layer_selection", "prompt_answered"}
    THEN "import_nodes" ELSE p

\* C11: the phases run in the order users, nodes, devices, interfaces (with
\* vaps and addresses), links, contacts: a row of a kind is saved only while
\* its phase runs, a phase starts only when the phase before it has gone
\* through all of its records, and the confirmation is asked only when the
\* contacts phase has.
C11_PhasesInOrder ==
    [][ /\ \A n \in DOMAIN PhaseOrder : \A k \in PhaseKinds[PhaseOrder[n]] :
              Ids(db'[k]) \ Ids(db[k]) # {} => PhaseOf(pc) = PhaseOrder[n]
        /\ \A n \in DOMAIN PhaseOrder :
              (n > 1 /\ PhaseOf(pc') = PhaseOrder[n] /\ PhaseOf(pc) # PhaseOrder[n]) =>
                  (pc = PhaseOrder[n - 1] /\ PhaseDone(pc))
        /\ pc' = "import_users" => pc \in {"extract_users", "import_users"}
        /\ (pc' = "confirm" /\ pc # "confirm") =>
              (pc = "import_contacts" /\ PhaseDone(pc)) ]_vars

C11_Witness ==
    /\ pc = "confirm"
    /\ db["interfaces"] # {}
    /\ db["ipv4"] # {}
    /\ db["contacts"] # {}

\* C12: no node is created for a legacy node of status 'u', in any state of
\* the run, whatever the layers its point is in and the answers given.
C12_NoUnconfirmedNode ==
    \A k \in DOMAIN old_nodes :
        old_nodes[k].status = "u" => old_nodes[k].id \notin Ids(db["nodes"])

\* The nodes phase has gone through an unconfirmed node and saved another one.
C12_Witness ==
    /\ pc = "import_devices"
    /\ \E k \in DOMAIN old_nodes : old_nodes[k].status = "u"
    /\ db["nodes"] # {}

\* The users phase has returned and the run goes on.
AfterUsersPhase ==
    pc \in {"import_nodes", "select_layer", "prompt_layer_selection", "prompt_answered",
            "import_devices", "import_interfaces", "import_links", "import_contacts",
            "confirm"}

LegacyEmails == {old_nodes[k].email : k \in DOMAIN old_nodes}
UsersWith(email) == {u \in db["users"] : u.email = email}

\* Every node of the store has as owner the user created for the e-mail of
\* its legacy node.
NodesOwnedByEmail ==
    \A n \in db["nodes"] : \E u \in UsersWith(old_nodes[n.id].email) : n.user_id = u.id

\* C13, as stated: after the users phase the run has created exactly one user
\* for every distinct e-mail of the legacy nodes, and every legacy node of
\* that e-mail has that user as owner.
C13_OneUserPerEmail ==
    AfterUsersPhase =>
        /\ \A e \in LegacyEmails : Cardinality(UsersWith(e)) = 1
        /\ NodesOwnedByEmail

\* C13, amended: after the users phase the run has created at most one user
\* for every distinct e-mail of the legacy nodes, exactly one unless the
\* validation or the save of that user failed, and every imported node of
\* that e-mail has that user as owner.
C13_AtMostOneUserPerEmail ==
    AfterUsersPhase =>
        /\ \A e \in LegacyEmails :
              /\ Cardinality(UsersWith(e)) <= 1
              /\ users_dict[e] # NoId => \E u \in UsersWith(e) : u.id = users_dict[e]
              /\ users_dict[e] = NoId => UsersWith(e) = {}
        /\ \A u \in db["users"] : u.email \in LegacyEmails
        /\ NodesOwnedByEmail

\* Two legacy nodes of one e-mail are imported.
C13_Witness ==
    /\ pc = "import_devices"
    /\ Cardinality(db["nodes"]) = 2
    /\ Len(old_nodes) = 2
    /\ old_nodes[1].email = old_nodes[2].email

\* The smallest k >= 2 such that slug followed by k is not a username of "taken".
SmallestFree(slug, taken) ==
    CHOOSE k \in 2..9 :
        /\ Suffixed(slug, k) \notin taken
        /\ \A j \in 2..(k - 1) : Suffixed(slug, j) \in taken

\* C14: the username of a new user is the slug of the derived name when no
\* user of the store has it, otherwise the slug followed by the smallest
\* k >= 2 that gives a username not in the store; the search ends within as
\* many turns as the store has users; the usernames the run saves are pairwise
\* distinct and none of them was in the store before the run.
C14_UsernameSequence ==
    /\ u_pc = "save" =>
          u_username = IF u_original \notin u_users THEN u_original
                       ELSE Suffixed(u_original, SmallestFree(u_original, u_users))
    /\ u_pc = "while" => u_counter <= Cardinality(u_users) + 1
    /\ \A a, b \in DOMAIN u_created : a # b => u_created[a] # u_created[b]
    /\ \A a \in DOMAIN u_created : u_created[a] \notin u_preexisting

\* The run has saved jdoe, jdoe2 and jdoe3.
C14_Witness ==
    /\ u_pc = "end"
    /\ u_created = << <<"jdoe">>, <<"jdoe", "2">>, <<"jdoe", "3">> >>

\* import_nodes is at the head of its loop and its last iteration went
\* through the layer block: intersecting_layers, layer_answer and asked are
\* those of the legacy node i - 1.
LayerDecided ==
    /\ pc = "import_nodes"
    /\ i >= 2
    /\ old_nodes[i - 1].status # "u"

\* The node saved by the last iteration of import_nodes, if any.
LastNode == {n \in db["nodes"] : n.id = i - 1}

\* C15: a node inside exactly one layer is given that layer, and
\* prompt_layer_selection is not called for it.
C15_OneZoneAssigned ==
    /\ (LayerDecided /\ Cardinality(intersecting_layers) = 1) =>
          /\ asked = 0
          /\ layer_id \in intersecting_layers
          /\ \A n \in LastNode : n.layer = layer_id
    /\ pc \in {"prompt_layer_selection", "prompt_answered"} =>
          Cardinality(intersecting_layers) # 1

C15_Witness ==
    /\ LayerDecided
    /\ intersecting_layers = {"B"}
    /\ default_layer = "A"
    /\ LastNode # {}

\* C16: a node inside no layer is given the default layer when there is one,
\* and is discarded (no node created, the loop goes on) when there is none;
\* prompt_layer_selection is not called in either case.
C16_NoZoneDefaultOrDiscard ==
    /\ (LayerDecided /\ intersecting_layers = {}) =>
          /\ asked = 0
          /\ IF default_layer = NoLayer
             THEN layer_id = Discarded /\ LastNode = {}
             ELSE layer_id = default_layer /\ \A n \in LastNode : n.layer = default_layer
    /\ pc \in {"prompt_layer_selection", "prompt_answered"} => intersecting_layers # {}

C16_Witness ==
    /\ LayerDecided
    /\ intersecting_layers = {}
    /\ default_layer = "A"
    /\ LastNode # {}

\* C17: a node inside more than one layer gets what prompt_layer_selection
\* returned: a chosen layer is one of the layers the node is in and becomes
\* its layer; "default" gives the default layer, or discards the node when
\* there is none; "discard" discards the node.
C17_ManyZonesPrompted ==
    (LayerDecided /\ Cardinality(intersecting_layers) > 1) =>
        /\ asked >= 1
        /\ layer_answer \in Layers =>
              /\ layer_answer \in intersecting_layers
              /\ layer_id = layer_answer
              /\ \A n \in LastNode : n.layer = layer_answer
        /\ layer_answer \in {"", "default", "DEF"} =>
              IF default_layer = NoLayer
              THEN layer_id = Discarded /\ LastNode = {}
              ELSE layer_id = default_layer /\ \A n \in LastNode : n.layer = default_layer
        /\ layer_answer \in {"discard", "dis"} => (layer_id = Discarded /\ LastNode = {})
        /\ layer_answer \in Layers \cup {"", "default", "DEF", "discard", "dis"}

C17_Witness ==
    /\ LayerDecided
    /\ intersecting_layers = {"B", "C"}
    /\ layer_answer = "C"
    /\ default_layer = "A"
    /\ LastNode # {}

\* The answers prompt_layer_selection has to know for a node inside "layers".
Recognised(layers) == {"", "default", "DEF", "discard", "dis"} \cup layers

\* C18: in prompt_layer_selection an answer that is not recognised gives the
\* node neither a layer nor a discard, the question is asked again; a
\* recognised answer ends the selection at once; the blank answer stands for
\* "default".
C18_RepromptUntilRecognised ==
    [][ pc = "prompt_answered" =>
          /\ layer_answer \notin Recognised(intersecting_layers) =>
                /\ pc' \in {"prompt_layer_selection", "if_delete"}
                /\ db' = db
                /\ layer_id' = Unset
                /\ pc' = "prompt_layer_selection" => i' = i
          /\ layer_answer \in Recognised(intersecting_layers) =>
                pc' \notin {"prompt_layer_selection", "prompt_answered"}
          /\ (layer_answer = "" /\ pc' = "import_nodes") =>
                layer_id' = IF default_layer = NoLayer THEN Discarded ELSE default_layer
      ]_vars

\* A node got its layer at the second answer.
C18_Witness ==
    /\ LayerDecided
    /\ asked = 2
    /\ layer_id \in intersecting_layers
    /\ LastNode # {}

\* C19: every link of the store has both of its interfaces in the store and
\* of type wireless, from the moment import_links saves it: an interface of
\* another type is retyped before the link is built.
C19_LinkEndpointsWireless ==
    \A l \in db["links"] : \A end \in {l.a, l.b} :
        \E r \in db["interfaces"] : r.id = end /\ r.type = "wireless"

\* A link is saved on an interface imported from an 'eth' row (the rows that
\* have an IPv4 address).
C19_Witness ==
    /\ pc = "import_links"
    /\ \E l \in db["links"] : \E ip \in db["ipv4"] : ip.interface_id = l.a

\* C20: add, change and delete return True only for a response of the put or
\* delete request with a 2xx status code, and return False for every other
\* status code whatever the body.
C20_SuccessOnly2xx ==
    a_pc = "returned" =>
        /\ a_result = "True" => a_response.status_code \in 200..299
        /\ a_response.status_code \notin 200..299 => a_result = "False"

\* A response with status 500 and a well-formed body has given False.
C20_Witness ==
    /\ a_pc = "returned"
    /\ a_response.status_code = 500
    /\ a_response.content = "json"
    /\ a_result = "False"

\* get_session has ended by an exception: it is the only request of the call.
GetSessionRaised == a_pc = "raised" /\ a_requests = <<"get_session">>

\* C21: get_session returns a token that is not empty, taken from the answer
\* to the authentication request, or it raises ImproperlyConfigured; it never
\* returns an empty or missing session and raises no other exception.
C21_SessionOrConfigurationError ==
    /\ a_acquired > 0 => a_session \notin {"", None}
    /\ GetSessionRaised => a_exception.type = "ImproperlyConfigured"

\* C22: an add call the provider answers with status 500 returns False and
\* leaves the node as the caller passed it: node.data and the external id
\* are the same after the call as before it.
C22_FailedAddChangesNothing ==
    (a_pc = "returned" /\ a_call = "add" /\ a_response.status_code = 500) =>
        /\ a_result = "False"
        /\ a_node = a_node_passed

\* add or change has built citysdk_record with convert_format, and
\* convert_format can be called in 'update' mode for the node.
RecordBuilt ==
    /\ a_pc \in {"request", "release_session", "evaluate", "returned"}
    /\ a_call \in {"add", "change"}
    /\ ~ConvertRaises(a_node, "update")

\* The dict built in the mode the call did not use, and the two by mode.
OtherMode == IF a_call = "add" THEN "update" ELSE "create"
CreateEnvelope == IF a_call = "add" THEN a_record ELSE convert_format(a_node, OtherMode)
UpdateEnvelope == IF a_call = "add" THEN convert_format(a_node, OtherMode) ELSE a_record

IdentifierFields == {"id", "cdk_id"}
WithoutIdentifier(entry) == [k \in DOMAIN entry \ IdentifierFields |-> entry[k]]

\* C23 as stated: the dict of 'create' mode and the dict of 'update' mode
\* differ in the identifier field of their node and in nothing else.
C23_EnvelopesDifferInIdentifierOnly ==
    RecordBuilt =>
        [CreateEnvelope EXCEPT !.nodes = <<WithoutIdentifier(CreateEnvelope.nodes[1])>>]
        = [UpdateEnvelope EXCEPT !.nodes = <<WithoutIdentifier(UpdateEnvelope.nodes[1])>>]

\* C23: for a node with an external record, the node of the dict built in
\* 'create' mode and the node of the dict built in 'update' mode have the
\* same name, geom and data; the first has the slug as 'id' and no 'cdk_id',
\* the second the external id as 'cdk_id' and no 'id'. (The two dicts differ
\* also in create.params.create_type.)
C23_NodesDifferInIdentifierOnly ==
    RecordBuilt =>
        LET created == CreateEnvelope.nodes[1]
            updated == UpdateEnvelope.nodes[1]
        IN  /\ Len(CreateEnvelope.nodes) = 1 /\ Len(UpdateEnvelope.nodes) = 1
            /\ WithoutIdentifier(created) = WithoutIdentifier(updated)
            /\ DOMAIN WithoutIdentifier(created) = {"name", "geom", "data"}
            /\ DOMAIN created \cap IdentifierFields = {"id"}
            /\ created.id = a_node.slug
            /\ DOMAIN updated \cap IdentifierFields = {"cdk_id"}
            /\ updated.cdk_id = a_node.external_id

\* add has built its record for a node that has an external record, a
\* non-empty data and attributes convert_format copies into data.
C23_Witness ==
    /\ RecordBuilt
    /\ a_call = "add"
    /\ a_node_passed.data # {}
    /\ a_node_passed.attributes # {}

\* C26: in a run delete_imported_data is entered at most once, whatever
\* rejection, exception or interrupt occurs, an interrupt that arrives while
\* the rollback entered from confirm_operation_completed runs included.
C26_RollbackStartedAtMostOnce == rollbacks <= 1

\* C27: when handle() returns, the disconnectable signals it paused are
\* resumed, after an acceptance, a rejection, an exception or an interrupt.
C27_SignalsResumedOnReturn == pc = "done" => ~paused

\* C28: an iteration of import_links for a legacy link one of whose
\* interfaces is not in the store saves no link and leaves every row of the
\* store as it was, the type of the interface that is in the store included;
\* the loop then goes on with the next legacy link.
C28_OrphanLinkChangesNothing ==
    [][ (pc = "import_links" /\ i \in 1..old_count /\ i' = i + 1) =>
            LET orphan == \/ old_link'.from_interface_id \notin Ids(db["interfaces"])
                          \/ old_link'.to_interface_id \notin Ids(db["interfaces"])
            IN  orphan => (db' = db /\ acc' = acc /\ pc' = "import_links")
      ]_vars

\* The requests of a call that goes through all of its statements.
ExpectedRequests ==
    <<"get_session", IF a_call = "delete" THEN "delete" ELSE "put", "release_session">>

IsPrefix(s, t) == Len(s) <= Len(t) /\ \A k \in 1..Len(s) : s[k] = t[k]

\* C25 as stated: every call of add, change or delete issues the
\* authentication request, the put or delete request and the release
\* request, one of each.
C25_EveryCallThreeRequests == CallEnded => a_requests = ExpectedRequests

\* C25: a call of add, change or delete issues its requests in the order
\* authentication, put or delete, release, none of them twice, whatever the
\* responses; a call that returns a result has issued exactly one of each,
\* and the release request is issued before the status code of the response
\* is looked at.
C25_RequestsInOrderOnce ==
    /\ a_pc # "idle" => IsPrefix(a_requests, ExpectedRequests)
    /\ a_pc \in {"evaluate", "returned"} => a_requests = ExpectedRequests
    /\ a_result # None => a_pc = "returned"

\* change has returned False for a response with status code 500, after the
\* three requests.
C25_Witness ==
    /\ a_pc = "returned"
    /\ a_call = "change"
    /\ a_response.status_code = 500
    /\ a_result = "False"
    /\ a_requests = <<"get_session", "put", "release_session">>

\* C24: the rollback of a run deletes no row that an earlier run of the same
\* command object left in the store: the lists delete_imported_data reads
\* hold rows of the run only, also when the run fails before its phases have
\* assigned them.
C24_EarlierRunsKept ==
    \A x \in committed_before : x[2] \in Ids(db[x[1]])
====
